---- MODULE Spec2Model ----
(***************************************************************************)
(* Model of wiretuird (src/src/wiretuird/main.py): a terminal front-end    *)
(* that lists the WireGuard configurations of /etc/wireguard, marks the    *)
(* active ones and brings the selected interface up or down.               *)
(*                                                                         *)
(* Python strings are sequences of one-character strings, so that strip,   *)
(* split, splitlines, endswith, slicing, sorting and f-string formatting   *)
(* are computed the way the interpreter computes them.                     *)
(* An optional string (str | None) is a sequence of length 0 (None) or 1.  *)
(***************************************************************************)
EXTENDS Integers, Sequences, FiniteSets, TLC

VARIABLES
    euid,                \* os.geteuid() of the process
    status,              \* "init" | "running" | "crashed" | "exited"
    raised,              \* None, or the name of the function whose subprocess.run raised
    selected_interface,  \* WGManagerApp.selected_interface : str | None
    row_interfaces,      \* WGManagerApp.row_interfaces : list[str]
    table,               \* rows of the DataTable #config_table
    cursor_row,          \* row of the DataTable cursor (0-based)
    sub_title,           \* App.sub_title
    configs,             \* result of list_wireguard_configs() in the last completed refresh_table
    items,               \* items built by build_config_items() in that refresh
    active_interfaces,   \* result of get_active_interfaces() in that refresh
    invoked,             \* argv of every subprocess launched by the last handler
    wgq,                 \* the run_wg_quick call of the last handler, or None
    handler,             \* name of the last handler that ran, "" before on_mount
    same_inputs          \* the last handler completed a refresh right after a completed
                         \* refresh that had the same listing and the same active set

vars == <<euid, status, raised, selected_interface, row_interfaces, table,
          cursor_row, sub_title, configs, items, active_interfaces, invoked, wgq,
          handler, same_inputs>>

(***************************************************************************)
(* Bounds                                                                  *)
(***************************************************************************)
\* most lines `ls /etc/wireguard` prints
MaxFiles == 3

\* the longest file name given to the loop of build_config_items on its own,
\* in pieces
MaxParts == 3

(***************************************************************************)
(* Optional values                                                         *)
(***************************************************************************)
None == <<>>
Some(x) == <<x>>
\* Python truthiness of a str | None: None and "" are falsy
Truthy(opt) == opt # None /\ opt[1] # <<>>

(***************************************************************************)
(* String literals of the program                                          *)
(***************************************************************************)
S_sudo == <<"s","u","d","o">>
S_n == <<"-","n">>
S_wg == <<"w","g">>
S_show == <<"s","h","o","w">>
S_interfaces == <<"i","n","t","e","r","f","a","c","e","s">>
S_ls == <<"l","s">>
WIREGUARD_DIR == <<"/","e","t","c","/","w","i","r","e","g","u","a","r","d">>
S_wg_quick == <<"w","g","-","q","u","i","c","k">>
S_up == <<"u","p">>
S_down == <<"d","o","w","n">>
S_conf == <<".","c","o","n","f">>
S_Interface_q == <<"I","n","t","e","r","f","a","c","e"," ","'">>
S_q_sp == <<"'"," ">>
S_succeeded == <<" ","s","u","c","c","e","e","d","e","d",".">>
S_wg_quick_sp == <<"w","g","-","q","u","i","c","k"," ">>
S_failed == <<" ","f","a","i","l","e","d",":"," ">>
S_Unknown_error == <<"U","n","k","n","o","w","n"," ","e","r","r","o","r">>
S_No_conf_files == <<"N","o"," ",".","c","o","n","f"," ","f","i","l","e","s"," ","f","o","u","n","d"," ","i","n"," ","/","e","t","c","/","w","i","r","e","g","u","a","r","d">>
S_No_active == <<"N","o"," ","a","c","t","i","v","e"," ","i","n","t","e","r","f","a","c","e">>
S_Active_colon == <<"A","c","t","i","v","e",":"," ">>
S_comma_sp == <<","," ">>
S_No_selected == <<"N","o"," ","i","n","t","e","r","f","a","c","e"," ","s","e","l","e","c","t","e","d">>
S_ACTIVE == <<"A","C","T","I","V","E">>

(***************************************************************************)
(* Python string operations                                                *)
(***************************************************************************)
\* code points of the characters that occur in file names (str comparison
\* is by code point)
Ord == (" " :> 32) @@ ("-" :> 45) @@ ("." :> 46) @@ ("0" :> 48) @@
       ("a" :> 97) @@ ("c" :> 99) @@ ("f" :> 102) @@ ("g" :> 103) @@
       ("n" :> 110) @@ ("o" :> 111) @@ ("w" :> 119)

Whitespace == {" ", "\n", "\t"}

Min(a, b) == IF a <= b THEN a ELSE b

\* s < t for Python str
StrLess(s, t) ==
    \/ \E i \in 1..Min(Len(s), Len(t)) :
          /\ \A j \in 1..(i - 1) : s[j] = t[j]
          /\ Ord[s[i]] < Ord[t[i]]
    \/ /\ Len(s) < Len(t)
       /\ \A j \in 1..Len(s) : s[j] = t[j]

\* sorted(S) for a set S of str
RECURSIVE sorted(_)
sorted(S) ==
    IF S = {} THEN <<>>
    ELSE LET m == CHOOSE x \in S : \A y \in S : x = y \/ StrLess(x, y)
         IN  <<m>> \o sorted(S \ {m})

\* s.endswith(suffix)
endswith(s, suffix) ==
    /\ Len(s) >= Len(suffix)
    /\ SubSeq(s, Len(s) - Len(suffix) + 1, Len(s)) = suffix

\* s.strip()
RECURSIVE lstrip(_)
lstrip(s) ==
    IF s # <<>> /\ Head(s) \in Whitespace THEN lstrip(Tail(s)) ELSE s

RECURSIVE rstrip(_)
rstrip(s) ==
    IF s # <<>> /\ s[Len(s)] \in Whitespace
    THEN rstrip(SubSeq(s, 1, Len(s) - 1)) ELSE s

strip(s) == rstrip(lstrip(s))

\* s.split(): the maximal runs of non-whitespace characters, in order
RECURSIVE splitAcc(_, _, _)
splitAcc(s, cur, acc) ==
    IF s = <<>> THEN (IF cur = <<>> THEN acc ELSE Append(acc, cur))
    ELSE IF Head(s) \in Whitespace
         THEN splitAcc(Tail(s), <<>>, IF cur = <<>> THEN acc ELSE Append(acc, cur))
         ELSE splitAcc(Tail(s), Append(cur, Head(s)), acc)

split(s) == splitAcc(s, <<>>, <<>>)

\* s.splitlines(): lines end at "\n"; no empty last line after a final "\n"
RECURSIVE splitlinesAcc(_, _, _)
splitlinesAcc(s, cur, acc) ==
    IF s = <<>> THEN (IF cur = <<>> THEN acc ELSE Append(acc, cur))
    ELSE IF Head(s) = "\n"
         THEN splitlinesAcc(Tail(s), <<>>, Append(acc, cur))
         ELSE splitlinesAcc(Tail(s), Append(cur, Head(s)), acc)

splitlines(s) == splitlinesAcc(s, <<>>, <<>>)

\* sep.join(parts)
RECURSIVE join(_, _)
join(sep, parts) ==
    IF parts = <<>> THEN <<>>
    ELSE IF Len(parts) = 1 THEN parts[1]
    ELSE parts[1] \o sep \o join(sep, Tail(parts))

\* needle in haystack, for str
Contains(haystack, needle) ==
    \E i \in 1..(Len(haystack) - Len(needle) + 1) :
        SubSeq(haystack, i, i + Len(needle) - 1) = needle

Range(f) == {f[i] : i \in DOMAIN f}


(***************************************************************************)
(* The host: what the external commands can do                             *)
(***************************************************************************)
\* subprocess.run could not start the executable (FileNotFoundError)
CannotStart ==
    [kind |-> "cannot_start", started |-> FALSE, returncode |-> -1,
     stdout |-> <<>>, stderr |-> <<>>]

\* a CompletedProcess
Exit(kind, rc, out, err) ==
    [kind |-> kind, started |-> TRUE, returncode |-> rc, stdout |-> out, stderr |-> err]

\* lines `ls /etc/wireguard` can print, in directory order: a name with a
\* trailing blank, a name without the suffix, a name that is a blank and the
\* suffix, and a name that sorts before it
DirOrder ==
    << <<"a",".","c","o","n","f"," ">>,
       <<"a">>,
       <<" ",".","c","o","n","f">>,
       <<"-",".","c","o","n","f">> >>

\* interface names `wg show interfaces` can print, in kernel order
IfaceOrder == << <<"a">>, <<"-">> >>

\* diagnostics the commands print
E_sudo == <<"s","u","d","o",":"," ","n","o"," ","p","w","\n">>
E_dev == <<" ","n","o"," ","d","e","v","\n">>
O_out == <<"o","u","t","\n">>
Blank == <<" ","\n">>

LsStdout(S) ==
    LET lines == SelectSeq(DirOrder, LAMBDA l : l \in S)
    IN  IF lines = <<>> THEN <<>> ELSE join(<<"\n">>, lines) \o <<"\n">>

WgShowStdout(S) ==
    LET names == SelectSeq(IfaceOrder, LAMBDA n : n \in S)
    IN  IF names = <<>> THEN <<>> ELSE join(<<" ">>, names) \o <<"\n">>

\* sudo -n without cached credentials exits non-zero at once
Refusals(argv) ==
    IF argv[1] = S_sudo THEN {Exit("refused", 1, <<>>, E_sudo)} ELSE {}

LsResults(argv) ==
    {CannotStart} \cup Refusals(argv) \cup {Exit("nonzero", 2, <<>>, E_dev)}
    \cup {Exit("zero", 0, LsStdout(S), <<>>) :
            S \in {T \in SUBSET Range(DirOrder) : Cardinality(T) <= MaxFiles}}

WgShowResults(argv) ==
    {CannotStart} \cup Refusals(argv) \cup {Exit("nonzero", 1, <<>>, E_dev)}
    \cup {Exit("zero", 0, WgShowStdout(S), <<>>) : S \in SUBSET Range(IfaceOrder)}

\* what `wg-quick` can do when run_wg_quick is studied on its own
WgQuickResults(argv) ==
    {CannotStart} \cup Refusals(argv)
    \cup {Exit("zero", 0, out, <<>>) : out \in {<<>>, O_out}}
    \cup {Exit("nonzero", 1, out, err) :
            out \in {<<>>, Blank, O_out}, err \in {<<>>, Blank, E_dev}}

\* what `wg-quick` can do inside the app: it cannot be started, it succeeds,
\* or it fails with a diagnostic (a refused elevation is such a failure)
WgQuickOutcomes ==
    {CannotStart, Exit("zero", 0, <<>>, <<>>), Exit("nonzero", 1, <<>>, E_dev)}

(***************************************************************************)
(* Module-level functions of main.py                                       *)
(***************************************************************************)
\* _with_privileges(command)
_with_privileges(command, uid) ==
    IF uid = 0 THEN command ELSE <<S_sudo, S_n>> \o command

\* the command get_active_interfaces() launches
GetActiveArgv(uid) == <<S_wg, S_show, S_interfaces>>

\* get_active_interfaces(), given what subprocess.run does
get_active_interfaces(result) ==
    IF ~result.started THEN [raised |-> TRUE, value |-> {}]
    ELSE IF result.returncode # 0 THEN [raised |-> FALSE, value |-> {}]
    ELSE [raised |-> FALSE,
          value |-> {name \in Range(split(strip(result.stdout))) : name # <<>>}]

\* variant: the names in the order the listing printed them
list_wireguard_configs_unsorted(result) ==
    IF ~result.started THEN [raised |-> TRUE, value |-> <<>>]
    ELSE IF result.returncode # 0 THEN [raised |-> FALSE, value |-> <<>>]
    ELSE LET lines == SelectSeq(splitlines(result.stdout),
                                LAMBDA l : strip(l) # <<>> /\ endswith(strip(l), S_conf))
         IN  [raised |-> FALSE, value |-> [i \in 1..Len(lines) |-> strip(lines[i])]]

\* variant: every non-blank line is a configuration, whatever its suffix
list_wireguard_configs_unfiltered(result) ==
    IF ~result.started THEN [raised |-> TRUE, value |-> <<>>]
    ELSE IF result.returncode # 0 THEN [raised |-> FALSE, value |-> <<>>]
    ELSE [raised |-> FALSE,
          value |-> sorted({strip(line) : line \in
                       {l \in Range(splitlines(result.stdout)) : strip(l) # <<>>}})]

\* the command list_wireguard_configs() launches
ListConfigsArgv(uid) == _with_privileges(<<S_ls, WIREGUARD_DIR>>, uid)

\* list_wireguard_configs(), given what subprocess.run does
list_wireguard_configs(result) ==
    IF ~result.started THEN [raised |-> TRUE, value |-> <<>>]
    ELSE IF result.returncode # 0 THEN [raised |-> FALSE, value |-> <<>>]
    ELSE [raised |-> FALSE,
          value |-> sorted({strip(line) : line \in
                       {l \in Range(splitlines(result.stdout)) :
                            strip(l) # <<>> /\ endswith(strip(l), S_conf)}})]

\* variant: a doubled suffix is removed whole
InterfaceOf_every_suffix(file_name) ==
    IF endswith(file_name, S_conf \o S_conf)
    THEN SubSeq(file_name, 1, Len(file_name) - 10)
    ELSE IF endswith(file_name, S_conf)
    THEN SubSeq(file_name, 1, Len(file_name) - 5)
    ELSE file_name

\* interface = file_name[:-5] if file_name.endswith(".conf") else file_name
InterfaceOf(file_name) ==
    IF endswith(file_name, S_conf)
    THEN SubSeq(file_name, 1, Len(file_name) - 5)
    ELSE file_name

\* variant: the active flag looks the file name up, not the interface
ConfigItem_by_file_name(file_name, active_set) ==
    [file_name |-> file_name,
     interface |-> InterfaceOf(file_name),
     active    |-> file_name \in active_set]

\* ConfigItem(file_name, interface, active)
ConfigItem(file_name, active_set) ==
    [file_name |-> file_name,
     interface |-> InterfaceOf(file_name),
     active    |-> InterfaceOf(file_name) \in active_set]

\* build_config_items(): the query runs first, then the listing
build_config_items(wgResult, lsResult) ==
    LET act == get_active_interfaces(wgResult)
        cfg == list_wireguard_configs(lsResult)
    IN  IF act.raised
        THEN [raised |-> "get_active_interfaces", launched |-> 1,
              active |-> {}, configs |-> <<>>, items |-> <<>>]
        ELSE IF cfg.raised
        THEN [raised |-> "list_wireguard_configs", launched |-> 2,
              active |-> act.value, configs |-> <<>>, items |-> <<>>]
        ELSE [raised |-> "", launched |-> 2,
              active |-> act.value, configs |-> cfg.value,
              items |-> [i \in 1..Len(cfg.value) |-> ConfigItem(cfg.value[i], act.value)]]

\* run_wg_quick(action, interface), given what subprocess.run does
RunWgQuickArgv(action, interface, uid) ==
    _with_privileges(<<S_wg_quick, action, interface>>, uid)

PyOr(a, b) == IF a # <<>> THEN a ELSE b

\* variant: the output stream is preferred over the error stream
run_wg_quick_stdout_first(action, interface, result) ==
    IF ~result.started THEN [raised |-> TRUE, ok |-> FALSE, msg |-> <<>>]
    ELSE IF result.returncode = 0
    THEN [raised |-> FALSE, ok |-> TRUE,
          msg |-> S_Interface_q \o interface \o S_q_sp \o action \o S_succeeded]
    ELSE LET stderr == PyOr(strip(result.stdout),
                            PyOr(strip(result.stderr), S_Unknown_error))
         IN  [raised |-> FALSE, ok |-> FALSE,
              msg |-> S_wg_quick_sp \o action \o S_failed \o stderr]

run_wg_quick(action, interface, result) ==
    IF ~result.started THEN [raised |-> TRUE, ok |-> FALSE, msg |-> <<>>]
    ELSE IF result.returncode = 0
    THEN [raised |-> FALSE, ok |-> TRUE,
          msg |-> S_Interface_q \o interface \o S_q_sp \o action \o S_succeeded]
    ELSE LET stderr == PyOr(strip(result.stderr),
                            PyOr(strip(result.stdout), S_Unknown_error))
         IN  [raised |-> FALSE, ok |-> FALSE,
              msg |-> S_wg_quick_sp \o action \o S_failed \o stderr]


(***************************************************************************)
(* WGManagerApp                                                            *)
(***************************************************************************)
\* _build_sub_title(items)
_build_sub_title(its) ==
    IF its = <<>> THEN S_No_conf_files
    ELSE LET act  == SelectSeq(its, LAMBDA item : item.active)
             active == [i \in 1..Len(act) |-> act[i].interface]
         IN  IF active = <<>> THEN S_No_active
             ELSE S_Active_colon \o join(S_comma_sp, active)

\* table.add_row(state, item.file_name, item.interface, key=item.interface)
Row(item) ==
    [state     |-> IF item.active THEN S_ACTIVE ELSE <<>>,
     file_name |-> item.file_name,
     interface |-> item.interface,
     key       |-> item.interface]

\* list.index(x): 0-based position of the first occurrence
IndexOf(list, x) ==
    (CHOOSE i \in 1..Len(list) : list[i] = x /\ \A j \in 1..(i - 1) : list[j] # x) - 1

\* variant: the previous selection is tried before the active row
TargetRow_previous_first(its, rows, previous) ==
    LET actives == {i \in 1..Len(its) : its[i].active}
        active_row == IF actives = {} THEN None
                      ELSE Some((CHOOSE i \in actives : \A j \in actives : i <= j) - 1)
    IN  IF Truthy(previous) /\ previous[1] \in Range(rows)
        THEN Some(IndexOf(rows, previous[1]))
        ELSE IF active_row # None THEN active_row
        ELSE IF rows # <<>> THEN Some(0)
        ELSE None

\* variant: no default row when nothing is active and the previous
\* selection is gone
TargetRow_no_default(its, rows, previous) ==
    LET actives == {i \in 1..Len(its) : its[i].active}
        active_row == IF actives = {} THEN None
                      ELSE Some((CHOOSE i \in actives : \A j \in actives : i <= j) - 1)
    IN  IF active_row # None THEN active_row
        ELSE IF Truthy(previous) /\ previous[1] \in Range(rows)
        THEN Some(IndexOf(rows, previous[1]))
        ELSE None

\* variant: the last active row, not the first
TargetRow_last_active(its, rows, previous) ==
    LET actives == {i \in 1..Len(its) : its[i].active}
        active_row == IF actives = {} THEN None
                      ELSE Some((CHOOSE i \in actives : \A j \in actives : i >= j) - 1)
    IN  IF active_row # None THEN active_row
        ELSE IF Truthy(previous) /\ previous[1] \in Range(rows)
        THEN Some(IndexOf(rows, previous[1]))
        ELSE IF rows # <<>> THEN Some(0)
        ELSE None

\* variant: the row after the previous selection (a 1-based index used as a
\* 0-based one), kept inside the table
TargetRow_off_by_one(its, rows, previous) ==
    LET actives == {i \in 1..Len(its) : its[i].active}
        active_row == IF actives = {} THEN None
                      ELSE Some((CHOOSE i \in actives : \A j \in actives : i <= j) - 1)
    IN  IF active_row # None THEN active_row
        ELSE IF Truthy(previous) /\ previous[1] \in Range(rows)
        THEN Some(Min(IndexOf(rows, previous[1]) + 1, Len(rows) - 1))
        ELSE IF rows # <<>> THEN Some(0)
        ELSE None

\* the row refresh_table moves the cursor to (0-based), or None
TargetRow(its, rows, previous) ==
    LET actives == {i \in 1..Len(its) : its[i].active}
        active_row == IF actives = {} THEN None
                      ELSE Some((CHOOSE i \in actives : \A j \in actives : i <= j) - 1)
    IN  IF active_row # None THEN active_row
        ELSE IF Truthy(previous) /\ previous[1] \in Range(rows)
        THEN Some(IndexOf(rows, previous[1]))
        ELSE IF rows # <<>> THEN Some(0)
        ELSE None

\* refresh_table(): the values it leaves in the app, or the function whose
\* subprocess.run raised after table.clear()
refresh_table(previous, wgResult, lsResult) ==
    LET built  == build_config_items(wgResult, lsResult)
        rows   == [i \in 1..Len(built.items) |-> built.items[i].interface]
        target == TargetRow(built.items, rows, previous)
    IN  [raised             |-> built.raised,
         launched           |-> built.launched,
         configs            |-> built.configs,
         items              |-> built.items,
         active_interfaces  |-> built.active,
         table              |-> [i \in 1..Len(built.items) |-> Row(built.items[i])],
         row_interfaces     |-> rows,
         cursor_row         |-> IF target # None THEN target[1] ELSE 0,
         selected_interface |-> IF target # None THEN Some(rows[target[1] + 1]) ELSE None,
         sub_title          |-> _build_sub_title(built.items)]

\* the commands a refresh launches, in order
RefreshArgvs(r) ==
    IF r.launched = 1 THEN <<GetActiveArgv(euid)>>
    ELSE <<GetActiveArgv(euid), ListConfigsArgv(euid)>>

\* variant: the status text the refresh computed is what the handler leaves
AfterRefresh_own_title(r, before, title) ==
    /\ invoked' = before \o RefreshArgvs(r)
    /\ IF r.raised # ""
       THEN /\ status' = "crashed"
            /\ raised' = Some(r.raised)
            /\ table' = <<>>
            /\ cursor_row' = 0
            /\ same_inputs' = FALSE
            /\ UNCHANGED <<selected_interface, row_interfaces, sub_title,
                           configs, items, active_interfaces>>
       ELSE /\ status' = "running"
            /\ raised' = None
            /\ table' = r.table
            /\ cursor_row' = r.cursor_row
            /\ selected_interface' = r.selected_interface
            /\ row_interfaces' = r.row_interfaces
            /\ sub_title' = r.sub_title
            /\ configs' = r.configs
            /\ items' = r.items
            /\ active_interfaces' = r.active_interfaces
            /\ same_inputs' = (/\ status = "running" /\ invoked # <<>>
                               /\ r.configs = configs
                               /\ r.active_interfaces = active_interfaces)

\* the app after refresh_table() returned or raised; title is the sub_title
\* the handler leaves
AfterRefresh(r, before, title) ==
    /\ invoked' = before \o RefreshArgvs(r)
    /\ IF r.raised # ""
       THEN /\ status' = "crashed"
            /\ raised' = Some(r.raised)
            /\ table' = <<>>
            /\ cursor_row' = 0
            /\ same_inputs' = FALSE
            /\ UNCHANGED <<selected_interface, row_interfaces, sub_title,
                           configs, items, active_interfaces>>
       ELSE /\ status' = "running"
            /\ raised' = None
            /\ table' = r.table
            /\ cursor_row' = r.cursor_row
            /\ selected_interface' = r.selected_interface
            /\ row_interfaces' = r.row_interfaces
            /\ sub_title' = title
            /\ configs' = r.configs
            /\ items' = r.items
            /\ active_interfaces' = r.active_interfaces
            /\ same_inputs' = (/\ status = "running" /\ invoked # <<>>
                               /\ r.configs = configs
                               /\ r.active_interfaces = active_interfaces)

\* on_mount()
OnMount ==
    /\ status = "init"
    /\ \E wgResult \in WgShowResults(GetActiveArgv(euid)),
          lsResult \in LsResults(ListConfigsArgv(euid)) :
          LET r == refresh_table(selected_interface, wgResult, lsResult)
          IN  AfterRefresh(r, <<>>, r.sub_title)
    /\ wgq' = None
    /\ handler' = "on_mount"
    /\ UNCHANGED euid

\* action_refresh_configs(), also the Refresh button
ActionRefreshConfigs ==
    /\ status = "running"
    /\ \E wgResult \in WgShowResults(GetActiveArgv(euid)),
          lsResult \in LsResults(ListConfigsArgv(euid)) :
          LET r == refresh_table(selected_interface, wgResult, lsResult)
          IN  AfterRefresh(r, <<>>, r.sub_title)
    /\ wgq' = None
    /\ handler' = "action_refresh_configs"
    /\ UNCHANGED euid

\* variant: the handler remembers the Config cell of the row, not its key
OnDataTableRowSelected_file_name ==
    /\ status = "running"
    /\ \E row \in 0..(Len(table) - 1) :
          /\ selected_interface' = Some(table[row + 1].file_name)
          /\ cursor_row' = row
    /\ invoked' = <<>>
    /\ wgq' = None
    /\ handler' = "on_data_table_row_selected"
    /\ same_inputs' = FALSE
    /\ UNCHANGED <<euid, status, raised, row_interfaces, table, sub_title,
                   configs, items, active_interfaces>>

\* variant: the handler keeps the remembered value while some row is active
OnDataTableRowSelected_unless_active ==
    /\ status = "running"
    /\ \E row \in 0..(Len(table) - 1) :
          /\ selected_interface' =
                 (IF \E i \in 1..Len(items) : items[i].active
                  THEN selected_interface ELSE Some(table[row + 1].key))
          /\ cursor_row' = row
    /\ invoked' = <<>>
    /\ wgq' = None
    /\ handler' = "on_data_table_row_selected"
    /\ same_inputs' = FALSE
    /\ UNCHANGED <<euid, status, raised, row_interfaces, table, sub_title,
                   configs, items, active_interfaces>>

\* on_data_table_row_selected(event): the user selects row `row` (Enter or click)
OnDataTableRowSelected ==
    /\ status = "running"
    /\ \E row \in 0..(Len(table) - 1) :
          /\ selected_interface' = Some(table[row + 1].key)
          /\ cursor_row' = row
    /\ invoked' = <<>>
    /\ wgq' = None
    /\ handler' = "on_data_table_row_selected"
    /\ same_inputs' = FALSE
    /\ UNCHANGED <<euid, status, raised, row_interfaces, table, sub_title,
                   configs, items, active_interfaces>>

\* the user moves the table cursor; the app handles no RowHighlighted message
CursorMoved ==
    /\ status = "running"
    /\ \E row \in 0..(Len(table) - 1) :
          /\ row # cursor_row
          /\ cursor_row' = row
    /\ invoked' = <<>>
    /\ wgq' = None
    /\ handler' = "cursor_moved"
    /\ same_inputs' = FALSE
    /\ UNCHANGED <<euid, status, raised, selected_interface, row_interfaces,
                   table, sub_title, configs, items, active_interfaces>>

\* _current_interface()
_current_interface == selected_interface

\* variant: without a selection the action returns without a status text
BringAction_silent(action) ==
    /\ status = "running"
    /\ handler' = (IF action = S_up THEN "action_bring_up" ELSE "action_bring_down")
    /\ LET interface == _current_interface
       IN  IF ~Truthy(interface)
           THEN /\ sub_title' = sub_title
                /\ invoked' = <<>>
                /\ wgq' = None
                /\ same_inputs' = FALSE
                /\ UNCHANGED <<euid, status, raised, selected_interface,
                               row_interfaces, table, cursor_row, configs,
                               items, active_interfaces>>
           ELSE \E result \in WgQuickOutcomes :
                  LET ret  == run_wg_quick(action, interface[1], result)
                      argv == RunWgQuickArgv(action, interface[1], euid)
                  IN  /\ wgq' = Some([action |-> action, interface |-> interface[1],
                                       result |-> result, ret |-> ret])
                      /\ IF ret.raised
                         THEN /\ status' = "crashed"
                              /\ raised' = Some("run_wg_quick")
                              /\ invoked' = <<argv>>
                              /\ same_inputs' = FALSE
                              /\ UNCHANGED <<selected_interface, row_interfaces,
                                             table, cursor_row, sub_title, configs,
                                             items, active_interfaces>>
                         ELSE \E wgResult \in WgShowResults(GetActiveArgv(euid)),
                                 lsResult \in LsResults(ListConfigsArgv(euid)) :
                                LET r == refresh_table(selected_interface, wgResult, lsResult)
                                IN  AfterRefresh(r, <<argv>>,
                                                 IF ~ret.ok THEN ret.msg ELSE r.sub_title)
                      /\ UNCHANGED euid

\* action_bring_up() and action_bring_down(), also the Up and Down buttons
BringAction(action) ==
    /\ status = "running"
    /\ handler' = (IF action = S_up THEN "action_bring_up" ELSE "action_bring_down")
    /\ LET interface == _current_interface
       IN  IF ~Truthy(interface)
           THEN /\ sub_title' = S_No_selected
                /\ invoked' = <<>>
                /\ wgq' = None
                /\ same_inputs' = FALSE
                /\ UNCHANGED <<euid, status, raised, selected_interface,
                               row_interfaces, table, cursor_row, configs,
                               items, active_interfaces>>
           ELSE \E result \in WgQuickOutcomes :
                  LET ret  == run_wg_quick(action, interface[1], result)
                      argv == RunWgQuickArgv(action, interface[1], euid)
                  IN  /\ wgq' = Some([action |-> action, interface |-> interface[1],
                                       result |-> result, ret |-> ret])
                      /\ IF ret.raised
                         THEN /\ status' = "crashed"
                              /\ raised' = Some("run_wg_quick")
                              /\ invoked' = <<argv>>
                              /\ same_inputs' = FALSE
                              /\ UNCHANGED <<selected_interface, row_interfaces,
                                             table, cursor_row, sub_title, configs,
                                             items, active_interfaces>>
                         ELSE \E wgResult \in WgShowResults(GetActiveArgv(euid)),
                                 lsResult \in LsResults(ListConfigsArgv(euid)) :
                                LET r == refresh_table(selected_interface, wgResult, lsResult)
                                IN  AfterRefresh(r, <<argv>>,
                                                 IF ~ret.ok THEN ret.msg ELSE r.sub_title)
                      /\ UNCHANGED euid

ActionBringUp == BringAction(S_up)

ActionBringDown == BringAction(S_down)

\* the Quit binding and button
ActionQuit ==
    /\ status = "running"
    /\ status' = "exited"
    /\ invoked' = <<>>
    /\ wgq' = None
    /\ handler' = "exit"
    /\ same_inputs' = FALSE
    /\ UNCHANGED <<euid, raised, selected_interface, row_interfaces, table,
                   cursor_row, sub_title, configs, items, active_interfaces>>

Init ==
    /\ euid \in {0, 1000}
    /\ status = "init"
    /\ raised = None
    /\ selected_interface = None
    /\ row_interfaces = <<>>
    /\ table = <<>>
    /\ cursor_row = 0
    /\ sub_title = <<>>
    /\ configs = <<>>
    /\ items = <<>>
    /\ active_interfaces = {}
    /\ invoked = <<>>
    /\ wgq = None
    /\ handler = ""
    /\ same_inputs = FALSE

Next ==
    \/ OnMount
    \/ ActionRefreshConfigs
    \/ OnDataTableRowSelected
    \/ CursorMoved
    \/ ActionBringUp
    \/ ActionBringDown
    \/ ActionQuit

Spec == Init /\ [][Next]_vars

(***************************************************************************)
(* run_wg_quick on its own: every action, interface and process outcome    *)
(***************************************************************************)
RunnerActions == {S_up, S_down}

\* the identifiers of the names the listing can print, the empty one included
RunnerInterfaces == {InterfaceOf(strip(DirOrder[i])) : i \in 1..Len(DirOrder)}

CallRunWgQuick ==
    \E action \in RunnerActions, interface \in RunnerInterfaces :
      \E result \in WgQuickResults(RunWgQuickArgv(action, interface, euid)) :
        /\ wgq' = Some([action |-> action, interface |-> interface,
                        result |-> result,
                        ret |-> run_wg_quick(action, interface, result)])
        /\ invoked' = <<RunWgQuickArgv(action, interface, euid)>>
        /\ handler' = "run_wg_quick"
        /\ UNCHANGED <<euid, status, raised, selected_interface, row_interfaces,
                       table, cursor_row, sub_title, configs, items,
                       active_interfaces, same_inputs>>

NextRunner == CallRunWgQuick

SpecRunner == Init /\ [][NextRunner]_vars

(***************************************************************************)
(* the loop body of build_config_items on its own: any file name          *)
(***************************************************************************)
\* pieces file names are made of: with and without the suffix, the suffix
\* alone, doubled or in the middle, and 'conf' without its dot
NameParts ==
    { <<"w","g","0">>, <<"a">>, <<".","b">>, S_conf, <<"c","o","n","f">> }

RECURSIVE NamesOf(_)
NamesOf(n) ==
    IF n = 0 THEN {<<>>}
    ELSE LET shorter == NamesOf(n - 1)
         IN  shorter \cup {s \o p : s \in shorter, p \in NameParts}

FileNames == NamesOf(MaxParts) \ {<<>>}

\* for file_name in configs: items.append(ConfigItem(...)), for one name
BuildConfigItem ==
    \E file_name \in FileNames, active_set \in {{}, {<<"w","g","0">>}} :
        /\ configs' = <<file_name>>
        /\ active_interfaces' = active_set
        /\ items' = <<ConfigItem(file_name, active_set)>>
        /\ handler' = "build_config_items"
        /\ UNCHANGED <<euid, status, raised, selected_interface, row_interfaces,
                       table, cursor_row, sub_title, invoked, wgq, same_inputs>>

NextIdentifier == BuildConfigItem

SpecIdentifier == Init /\ [][NextIdentifier]_vars


(***************************************************************************)
(* Properties                                                              *)
(***************************************************************************)
\* the last handler ran refresh_table() to its end
RefreshDone == status = "running" /\ invoked # <<>>

\* the identifiers derived from the discovered names
Identifiers == {InterfaceOf(configs[i]) : i \in 1..Len(configs)}

\* the discovered names whose identifier is in the queried active set
ActiveNames == {n \in Range(configs) : InterfaceOf(n) \in active_interfaces}

\* the first of a non-empty set of display names, in ascending order
FirstName(names) == CHOOSE n \in names : \A m \in names : n = m \/ StrLess(n, m)

\* C1: the remembered selection is absent or is the identifier of an entry
\* of the most recently built view, after any refresh, row selection and
\* up/down action.
C1_SelectionInView ==
    selected_interface = None \/ selected_interface[1] \in Range(row_interfaces)

\* the user selected the second row of a view of two entries
C1_Witness ==
    /\ status = "running" /\ invoked = <<>>
    /\ Len(row_interfaces) = 2
    /\ selected_interface = Some(row_interfaces[2])

\* C2: when some discovered identifier is active, the selection after a
\* refresh is the identifier of the first entry in sorted order whose
\* identifier is active, whatever the previous selection was.
C2_ActiveWins ==
    (RefreshDone /\ ActiveNames # {})
        => selected_interface = Some(InterfaceOf(FirstName(ActiveNames)))

\* an up/down action acted on an interface that is still listed, and the
\* refresh moved the selection away from it to the active entry
C2_Witness ==
    /\ RefreshDone /\ wgq # None
    /\ ActiveNames # {}
    /\ wgq[1].interface \in Range(row_interfaces)
    /\ selected_interface # Some(wgq[1].interface)
    /\ selected_interface = Some(InterfaceOf(FirstName(ActiveNames)))

\* C3: when no discovered identifier is active and the previous selection
\* is a current identifier, the selection after a refresh is the previous
\* selection, whatever string it is.
C3_PreviousKept ==
    [][ (RefreshDone' /\ ActiveNames' = {}
         /\ selected_interface # None
         /\ selected_interface[1] \in Identifiers')
        => selected_interface' = selected_interface ]_vars

\* C4: when no discovered identifier is active and the previous selection
\* is absent or not a current identifier, the selection after a refresh is
\* the identifier of the first entry in sorted order, or absent when
\* nothing was discovered.
C4_DefaultFirst ==
    [][ (RefreshDone' /\ ActiveNames' = {}
         /\ (selected_interface = None \/ selected_interface[1] \notin Identifiers'))
        => selected_interface' =
             (IF configs' # <<>> THEN Some(InterfaceOf(FirstName(Range(configs'))))
              ELSE None) ]_vars

\* an up/down action acted on an interface that is no longer listed; nothing
\* is active and the selection fell back to the first entry
C4_Witness ==
    /\ RefreshDone /\ wgq # None
    /\ ActiveNames = {}
    /\ wgq[1].interface \notin Identifiers
    /\ configs # <<>>
    /\ selected_interface = Some(InterfaceOf(FirstName(Range(configs))))

\* the listing came back empty while an interface was active: no selection
C4_WitnessEmpty ==
    /\ RefreshDone /\ wgq # None
    /\ configs = <<>> /\ active_interfaces # {}
    /\ selected_interface = None

\* C5: the view has one entry per name the configuration listing returned,
\* none dropped, ordered by display name ascending.
C5_OnePerNameSorted ==
    /\ Len(items) = Cardinality(Range(configs))
    /\ {items[i].file_name : i \in 1..Len(items)} = Range(configs)
    /\ \A i \in 1..Len(items) : \A j \in (i + 1)..Len(items) :
          StrLess(items[i].file_name, items[j].file_name)

\* a view of two entries; the directory printed "a.conf " before "-.conf"
C5_Witness ==
    /\ RefreshDone
    /\ Len(items) = 2
    /\ items[1].file_name = DirOrder[4]
    /\ items[2].file_name = strip(DirOrder[1])

\* C6: in every view an entry's active flag is true exactly when its
\* identifier is in the active set queried by the same refresh.
C6_ActiveFlagFresh ==
    \A i \in 1..Len(items) :
        items[i].active <=> (items[i].interface \in active_interfaces)

\* a view with an active and an inactive entry, built right after an `up`
\* that succeeded on the entry now shown inactive
C6_Witness ==
    /\ RefreshDone /\ wgq # None
    /\ wgq[1].ret.ok
    /\ \E i, j \in 1..Len(items) :
          /\ items[i].active /\ ~items[j].active
          /\ items[j].interface = wgq[1].interface


\* C7: run_wg_quick never raises: whatever launching and running the
\* command does, the call returns a (success, message) pair.
C7_RunWgQuickNeverRaises ==
    wgq # None => ~wgq[1].ret.raised

\* the most specific diagnostic of a failed invocation
Diagnostic(result) ==
    IF strip(result.stderr) # <<>> THEN strip(result.stderr)
    ELSE IF strip(result.stdout) # <<>> THEN strip(result.stdout)
    ELSE S_Unknown_error

\* C8: the active-interface query and the configuration listing do not
\* raise on any underlying failure, so a refresh always completes.
C8_SourcesNeverRaise ==
    /\ raised # Some("get_active_interfaces")
    /\ raised # Some("list_wireguard_configs")

\* C9: when the command exits zero the result is (true, message naming the
\* identifier and the action); when it exits non-zero the result is (false,
\* message containing the stripped error stream, else the stripped output
\* stream, else 'Unknown error').
C9_ResultOfExit ==
    (wgq # None /\ wgq[1].result.started) =>
        LET c == wgq[1]
        IN  IF c.result.returncode = 0
            THEN /\ c.ret.ok
                 /\ ~c.ret.raised
                 /\ Contains(c.ret.msg, c.interface)
                 /\ Contains(c.ret.msg, c.action)
            ELSE /\ ~c.ret.ok
                 /\ ~c.ret.raised
                 /\ Contains(c.ret.msg, Diagnostic(c.result))

\* a failed invocation with both streams non-blank: the error stream is
\* reported, without its surrounding blanks
C9_Witness ==
    /\ wgq # None
    /\ wgq[1].result.returncode = 1
    /\ wgq[1].result.stderr = E_dev
    /\ wgq[1].result.stdout = O_out
    /\ ~wgq[1].ret.ok
    /\ wgq[1].ret.msg = S_wg_quick_sp \o wgq[1].action \o S_failed
                          \o <<"n","o"," ","d","e","v">>

\* a failed invocation whose error stream is blank: the output stream is reported
C9_WitnessStdout ==
    /\ wgq # None
    /\ wgq[1].result.returncode = 1
    /\ wgq[1].result.stderr = Blank
    /\ wgq[1].result.stdout = O_out
    /\ Contains(wgq[1].ret.msg, <<"o","u","t">>)

\* C10: every external command is launched directly when the effective uid
\* is 0 and through `sudo -n` otherwise.
C10_ElevatedUnlessRoot ==
    \A i \in 1..Len(invoked) :
        IF euid = 0
        THEN invoked[i][1] # S_sudo
        ELSE invoked[i][1] = S_sudo /\ invoked[i][2] = S_n

\* the last handler was action_bring_up or action_bring_down
BringHandled == handler \in {"action_bring_up", "action_bring_down"}

\* C11: an up or down action requested while a selection is present runs
\* the state-change command exactly once and then exactly one full refresh
\* (active query, listing, reconciliation), whether the command succeeded
\* or failed.  The selection was present when the command ran (wgq) or,
\* when no command ran, when the untouched selection is not None.
C11_OneCommandOneRefresh ==
    (BringHandled /\ (wgq # None \/ selected_interface # None)) =>
        /\ wgq # None
        /\ status = "running"
        /\ invoked = << RunWgQuickArgv(wgq[1].action, wgq[1].interface, euid),
                        GetActiveArgv(euid), ListConfigsArgv(euid) >>

\* C12: when an up or down command fails, the status text left by the
\* completed action is exactly the failure message run_wg_quick returned,
\* not the text of the follow-up refresh; when the command succeeds it is
\* the text the refresh computed.
C12_StatusAfterAction ==
    (BringHandled /\ wgq # None /\ status = "running") =>
        sub_title = (IF wgq[1].ret.ok THEN _build_sub_title(items)
                     ELSE wgq[1].ret.msg)

\* a failed command followed by a completed refresh: the failure message is
\* shown and it differs from the text of the refresh
C12_Witness ==
    /\ BringHandled /\ wgq # None /\ status = "running"
    /\ ~wgq[1].ret.ok
    /\ invoked # <<>>
    /\ sub_title = wgq[1].ret.msg
    /\ sub_title # _build_sub_title(items)

\* C13: an up or down action requested while no selection is present
\* reports 'No interface selected' as status text, raises nothing, runs no
\* external command and leaves the view and the selection memory unchanged.
C13_NoSelectionReported ==
    [][ (status = "running" /\ selected_interface = None
         /\ handler' \in {"action_bring_up", "action_bring_down"})
        => /\ sub_title' = S_No_selected
           /\ status' = "running"
           /\ raised' = None
           /\ invoked' = <<>>
           /\ wgq' = None
           /\ UNCHANGED <<selected_interface, row_interfaces, table, cursor_row,
                          configs, items, active_interfaces>> ]_vars

\* an up or down action was requested on an empty view
C13_Witness ==
    /\ BringHandled /\ status = "running"
    /\ wgq = None /\ invoked = <<>>
    /\ selected_interface = None
    /\ sub_title = S_No_selected

\* C14: reconciliation is idempotent: a refresh that follows a completed
\* refresh directly (no user selection between them) and sees the same
\* discovered names and the same active set produces the same entries in
\* the same order and the same selection.
C14_Idempotent ==
    [][ same_inputs'
        => /\ items' = items
           /\ row_interfaces' = row_interfaces
           /\ table' = table
           /\ selected_interface' = selected_interface ]_vars

\* a repeated refresh with nothing active that kept a selection the user
\* had moved to the second entry
C14_Witness ==
    /\ same_inputs /\ status = "running"
    /\ handler = "action_refresh_configs"
    /\ ActiveNames = {}
    /\ Len(row_interfaces) >= 2
    /\ selected_interface = Some(row_interfaces[2])

\* C15: whenever the user highlights a different row the selection memory
\* becomes that row's identifier, so while the session waits for input the
\* identifier of the highlighted row is the selection an up or down action
\* will act on.
C15_HighlightIsSelection ==
    (status = "running" /\ table # <<>>)
        => selected_interface = Some(table[cursor_row + 1].key)

\* the last handler was an `up` of a listed interface that succeeded, and
\* the follow-up refresh found that interface listed and active
BroughtUp ==
    /\ handler = "action_bring_up" /\ wgq # None /\ status = "running"
    /\ wgq[1].ret.ok
    /\ wgq[1].interface \in Identifiers
    /\ wgq[1].interface \in active_interfaces

\* C16 as stated: after a successful `up` of the selected interface X, with
\* X listed and active, the refreshed view has X as its selection whatever
\* other interfaces are active.
C16_BroughtUpIsSelected ==
    BroughtUp => selected_interface = Some(wgq[1].interface)

\* C16 as amended: the refreshed view has X as its selection when no other
\* active entry precedes X in display-name order; otherwise the selection
\* is the first active entry, which is not X.
C16_BroughtUpSelectedWhenFirst ==
    BroughtUp =>
        LET X == wgq[1].interface
        IN  IF \A n \in ActiveNames : InterfaceOf(n) = X \/ StrLess(X \o S_conf, n)
            THEN selected_interface = Some(X)
            ELSE /\ selected_interface = Some(InterfaceOf(FirstName(ActiveNames)))
                 /\ selected_interface # Some(X)

\* X was brought up while another listed interface, later in the order, is
\* active as well: X is the selection
C16_Witness ==
    /\ BroughtUp
    /\ Cardinality(ActiveNames) = 2
    /\ selected_interface = Some(wgq[1].interface)

\* a step of the row-selected handler stores the key of the selected row and
\* leaves the view, the status text and the process state alone, running no
\* command
RowSelectedFrame ==
    handler' = "on_data_table_row_selected" =>
        /\ selected_interface' = Some(table[cursor_row' + 1].key)
        /\ invoked' = <<>>
        /\ wgq' = None
        /\ UNCHANGED <<status, raised, row_interfaces, table, sub_title,
                       configs, items, active_interfaces>>

\* an up or down action that runs its command right after a selection event
RowSelectedThenBring ==
    /\ handler = "on_data_table_row_selected"
    /\ handler' \in {"action_bring_up", "action_bring_down"}
    /\ wgq' # None

C18_SelectedIsTarget ==
    [][ (status = "running" /\ handler' \in {"action_bring_up", "action_bring_down"}) =>
            /\ (selected_interface # None /\ selected_interface[1] \in Range(row_interfaces)) =>
                   /\ wgq' # None
                   /\ wgq'[1].interface = selected_interface[1]
                   /\ invoked' # <<>>
                   /\ invoked'[1] = RunWgQuickArgv(wgq'[1].action, selected_interface[1], euid)
            /\ (wgq' = None) => selected_interface = None ]_vars

\* C19: in the view a refresh builds, the identifiers of the entries, the
\* row keys and the remembered row identifiers are pairwise distinct, so a
\* previous selection is found at one row only.
C19_IdentifiersDistinct ==
    RefreshDone =>
        /\ \A i, j \in 1..Len(items) :
               items[i].interface = items[j].interface => i = j
        /\ \A i, j \in 1..Len(table) : table[i].key = table[j].key => i = j
        /\ \A i, j \in 1..Len(row_interfaces) :
               row_interfaces[i] = row_interfaces[j] => i = j
        /\ Len(table) = Len(items) /\ Len(row_interfaces) = Len(items)

\* the listing printed 'a.conf ' and the suffix-less 'a', whose identifiers
\* would collide, next to two more names: the view has three distinct rows
C19_Witness ==
    /\ RefreshDone
    /\ Len(items) = 3
    /\ \E i \in 1..3 : items[i].interface = DirOrder[2]
    /\ \A i \in 1..3 : items[i].file_name # DirOrder[2]

\* `name` is `stem` followed by the suffix '.conf'
HasConfSuffix(name) ==
    Len(name) >= 5 /\ SubSeq(name, Len(name) - 4, Len(name)) = <<".","c","o","n","f">>

\* C20: an entry's identifier is its display name without one trailing
\* '.conf' when the name ends in '.conf' and the display name itself
\* otherwise: 'wg0.conf' gives 'wg0', 'wg0' gives 'wg0', 'a.b.conf' gives
\* 'a.b', and of a doubled suffix only the last one goes.
C20_IdentifierOfName ==
    handler = "build_config_items" =>
        \A i \in 1..Len(items) :
            LET name == items[i].file_name
                id   == items[i].interface
            IN  /\ HasConfSuffix(name) => id \o <<".","c","o","n","f">> = name
                /\ ~HasConfSuffix(name) => id = name
                /\ name = <<"w","g","0",".","c","o","n","f">> => id = <<"w","g","0">>
                /\ name = <<"w","g","0">> => id = <<"w","g","0">>
                /\ name = <<"a",".","b",".","c","o","n","f">> => id = <<"a",".","b">>
                /\ (HasConfSuffix(name) /\ HasConfSuffix(SubSeq(name, 1, Len(name) - 5))) =>
                       (HasConfSuffix(id) /\ Len(id) = Len(name) - 5)

\* the entry of the name 'wg0.conf.conf' has the identifier 'wg0.conf'
C20_Witness ==
    /\ handler = "build_config_items"
    /\ items # <<>>
    /\ items[1].file_name = <<"w","g","0",".","c","o","n","f",".","c","o","n","f">>
    /\ items[1].interface = <<"w","g","0",".","c","o","n","f">>

====
